---- MODULE Spec2Model ----
(***************************************************************************)
(* Model of convert.py: the image-to-BMP converter for the waveshare eink  *)
(* photo frame.  Strings that the code takes apart (paths, file names) are *)
(* sequences of one-character strings.  Python floats are IEEE doubles;    *)
(* their division and multiplication are computed exactly with integers.   *)
(***************************************************************************)
EXTENDS Integers, Sequences, FiniteSets, TLC

VARIABLES pc, argv, args, fs, files, idx, converted_files, stdout, call, trace

vars == <<pc, argv, args, fs, files, idx, converted_files, stdout, call, trace>>

\* ------------------------------------------------------------------ bounds
MaxDim == 20       \* source images are 1..MaxDim pixels wide and high
MaxFiles == 3      \* a directory holds at most MaxFiles entries

\* ------------------------------------------------------- character strings
Str_8b6_bmp == <<".", "8", "b", "6", ".", "b", "m", "p">>
Str_6b8_bmp == <<".", "6", "b", "8", ".", "b", "m", "p">>
Str_bmp == <<".", "b", "m", "p">>

\* str.lower() on the characters the model uses
LowerChar(c) ==
  CASE c = "B" -> "b"
    [] c = "M" -> "m"
    [] c = "P" -> "p"
    [] c = "J" -> "j"
    [] c = "G" -> "g"
    [] OTHER -> c

lower(s) == [i \in 1..Len(s) |-> LowerChar(s[i])]

endswith(s, suffix) ==
  /\ Len(s) >= Len(suffix)
  /\ SubSeq(s, Len(s) - Len(suffix) + 1, Len(s)) = suffix

\* str.rfind(c), 1-based; 0 when c does not occur
rfind(s, c) ==
  LET hits == {i \in 1..Len(s) : s[i] = c}
  IN IF hits = {} THEN 0 ELSE CHOOSE i \in hits : \A j \in hits : j <= i

\* os.path.splitext (posix): the extension starts at the last dot of the last
\* path component, unless that component has only leading dots before it
splitext(p) ==
  LET sepIndex == rfind(p, "/")
      dotIndex == rfind(p, ".")
  IN IF /\ dotIndex > sepIndex
        /\ \E j \in (sepIndex + 1)..(dotIndex - 1) : p[j] # "."
     THEN <<SubSeq(p, 1, dotIndex - 1), SubSeq(p, dotIndex, Len(p))>>
     ELSE <<p, <<>>>>

is_bmp_image(filepath) == endswith(lower(filepath), Str_bmp)

\* ------------------------------------------------------------ IEEE doubles
RECURSIVE Pow2(_)
Pow2(n) == IF n = 0 THEN 1 ELSE 2 * Pow2(n - 1)

\* largest E with 2^E <= m, for m >= 1
RECURSIVE FloorLog2(_)
FloorLog2(m) == IF m < 2 THEN 0 ELSE 1 + FloorLog2(m \div 2)

\* largest e with 2^e <= t/d (the binary exponent of the double t/d)
RECURSIVE ExpUp(_, _, _)
ExpUp(t, d, e) == IF t >= d * Pow2(e + 1) THEN ExpUp(t, d, e + 1) ELSE e
RECURSIVE ExpDown(_, _, _)
ExpDown(t, d, n) == IF t * Pow2(n) < d THEN ExpDown(t, d, n + 1) ELSE n
FloatExp(t, d) == IF t >= d THEN ExpUp(t, d, 0) ELSE 0 - ExpDown(t, d, 1)

\* (t * 2^n) mod d and the last quotient bit of the long division, n steps
RECURSIVE LongDiv(_, _, _, _)
LongDiv(r, bit, d, n) ==
  IF n = 0 THEN <<r, bit>>
  ELSE LongDiv((2 * r) % d, IF 2 * r >= d THEN 1 ELSE 0, d, n - 1)

\* t / d in Python: the double nearest to t/d, with a 53-bit significand M
\* and exponent e.  DivResidual is t*2^(52-e) - M*d, so that the double is
\* exactly t/d - DivResidual/(d*2^(52-e)): positive when the quotient was
\* rounded down, negative when it was rounded up (ties go to the even M).
DivResidual(t, d) ==
  LET ld == LongDiv(t % d, 0, d, 52 - FloatExp(t, d))
      r == ld[1]
  IN IF 2 * r < d THEN r
     ELSE IF 2 * r > d THEN r - d
     ELSE IF ld[2] = 0 THEN r ELSE r - d

\* int(x * s) in Python where s is the double t / d: the product is rounded
\* to the nearest double and then truncated.  With x*t = m*d + f: when f > 0
\* the product lies strictly between m and m+1 and stays there; when f = 0
\* the exact product is m - x*rho/(d*2^(52-e)), which rounds to a double
\* below m exactly when it is more than half a unit in the last place below m.
IntOfProduct(x, t, d) ==
  LET m == (x * t) \div d
      f == (x * t) % d
      rho == DivResidual(t, d)
      e == FloatExp(t, d)
      E0 == FloorLog2(m)
      E == IF Pow2(E0) = m THEN E0 - 1 ELSE E0
      lhs == 2 * x * rho * (IF e >= 0 THEN Pow2(e) ELSE 1)
      rhs == d * (IF e >= 0 THEN 1 ELSE Pow2(0 - e)) * Pow2(E)
  IN IF f # 0 \/ rho <= 0 THEN m
     ELSE IF lhs > rhs THEN m - 1 ELSE m

\* ----------------------------------------------------- convert_to_bmp parts
\* variant: a square image counts as wider than high
TargetSize_SquareIsWide(display_orientation, width, height) ==
  IF display_orientation # ""
  THEN IF display_orientation = "landscape" THEN <<800, 480>> ELSE <<480, 800>>
  ELSE IF width >= height THEN <<800, 480>> ELSE <<480, 800>>

\* lines 70-80: the target canvas; "" is an orientation that is not set
\* (None or the empty string, the values Python takes as false)
TargetSize(display_orientation, width, height) ==
  IF display_orientation # ""
  THEN IF display_orientation = "landscape" THEN <<800, 480>> ELSE <<480, 800>>
  ELSE IF width > height THEN <<800, 480>> ELSE <<480, 800>>

\* line 86: max of the two doubles; the larger quotient gives the larger double
scale_ratio(target_width, target_height, width, height) ==
  IF target_width * height >= target_height * width
  THEN <<target_width, width>>
  ELSE <<target_height, height>>

\* lines 89-90
ResizedSize(target, width, height) ==
  LET s == scale_ratio(target[1], target[2], width, height)
  IN <<IntOfProduct(width, s[1], s[2]), IntOfProduct(height, s[1], s[2])>>

\* variant: division that truncates toward zero
PasteOffset_Truncating(target, resized) ==
  IF target >= resized THEN (target - resized) \div 2
  ELSE 0 - ((resized - target) \div 2)

\* lines 97-98: floor division
PasteOffset(target, resized) == (target - resized) \div 2

\* variant: the suffix follows the canvas shape an unset orientation may give
OutputFilename_NotPortrait(input_filename, display_orientation) ==
  IF display_orientation # "portrait"
  THEN splitext(input_filename)[1] \o Str_6b8_bmp
  ELSE splitext(input_filename)[1] \o Str_8b6_bmp

\* lines 109-111
OutputFilename(input_filename, display_orientation) ==
  IF display_orientation = "landscape"
  THEN splitext(input_filename)[1] \o Str_6b8_bmp
  ELSE splitext(input_filename)[1] \o Str_8b6_bmp

\* ------------------------------------------------------------- file system
\* fs maps each existing path to what is there:
\*   "image"      a file that verifies and decodes as a w by h image
\*   "truncated"  a file that verifies as a w by h image but fails to decode
\*   "junk"       a file that is not an image
\*   "dir"        a directory; "dir_ro" one that cannot be written to;
\*                "dir_noread" one whose entries cannot be listed
FileKinds == {"image", "truncated", "junk"}
DirKinds == {"dir", "dir_ro", "dir_noread"}

Entry(k, w, h) == [kind |-> k, w |-> w, h |-> h]

dirname(p) == SubSeq(p, 1, rfind(p, "/") - 1)
basename(p) == SubSeq(p, rfind(p, "/") + 1, Len(p))

\* path + '/' + name
Join(directory, name) == directory \o <<"/">> \o name

\* q lies somewhere below the directory
IsUnder(q, directory) ==
  /\ Len(q) > Len(directory) + 1
  /\ SubSeq(q, 1, Len(directory) + 1) = directory \o <<"/">>

isfile(fsys, p) == p \in DOMAIN fsys /\ fsys[p].kind \in FileKinds
isdir(fsys, p) == p \in DOMAIN fsys /\ fsys[p].kind \in DirKinds

\* lines 18-20
is_directory(fsys, path) == isdir(fsys, path)

\* lines 28-34: open and verify, any IOError or SyntaxError gives False
is_valid_image(fsys, filepath) == fsys[filepath].kind \in {"image", "truncated"}

\* line 112: Image.save opens the output path for writing
CanSave(fsys, p) ==
  /\ ~isdir(fsys, p)
  /\ \/ p \in DOMAIN fsys
     \/ dirname(p) \notin DOMAIN fsys
     \/ fsys[dirname(p)].kind # "dir_ro"

WriteFile(fsys, p, e) == [q \in DOMAIN fsys \cup {p} |-> IF q = p THEN e ELSE fsys[q]]

Line(k, f, x, y) == [kind |-> k, file |-> f, x |-> x, y |-> y]

\* ---------------------------------------------------------- convert_to_bmp
Locals(stage, input, size, target, resized, off, output) ==
  [stage |-> stage, input_filename |-> input,
   width |-> size[1], height |-> size[2],
   target_width |-> target[1], target_height |-> target[2],
   resized_width |-> resized[1], resized_height |-> resized[2],
   left |-> off[1], top |-> off[2], output_filename |-> output]

NoCall == Locals("none", <<>>, <<0, 0>>, <<0, 0>>, <<0, 0>>, <<0, 0>>, <<>>)

\* lines 55-114.  ret is "True", "False" or "raise" (an exception leaves the
\* function); out is what the call prints; fs is the file system afterwards
convert_to_bmp(input_filename, display_orientation, verbose, fsys) ==
  IF ~isfile(fsys, input_filename)
  THEN [ret |-> "False", fs |-> fsys,
        out |-> <<Line("file_error", input_filename, 0, 0)>>,
        locals |-> Locals("missing", input_filename, <<0, 0>>, <<0, 0>>, <<0, 0>>, <<0, 0>>, <<>>)]
  ELSE IF ~is_valid_image(fsys, input_filename)
  THEN [ret |-> "False", fs |-> fsys, out |-> <<>>,
        locals |-> Locals("invalid", input_filename, <<0, 0>>, <<0, 0>>, <<0, 0>>, <<0, 0>>, <<>>)]
  ELSE
    LET size == <<fsys[input_filename].w, fsys[input_filename].h>>
        target == TargetSize(display_orientation, size[1], size[2])
        out == IF verbose
               THEN <<Line("verbose", input_filename, target[1], target[2])>>
               ELSE <<>>
        resized == ResizedSize(target, size[1], size[2])
        off == <<PasteOffset(target[1], resized[1]), PasteOffset(target[2], resized[2])>>
        output_filename == OutputFilename(input_filename, display_orientation)
    IN IF fsys[input_filename].kind = "truncated"
       THEN [ret |-> "raise", fs |-> fsys, out |-> out,
             locals |-> Locals("resize_raised", input_filename, size, target, resized, <<0, 0>>, <<>>)]
       ELSE IF ~CanSave(fsys, output_filename)
       THEN [ret |-> "raise", fs |-> fsys, out |-> out,
             locals |-> Locals("save_raised", input_filename, size, target, resized, off, output_filename)]
       ELSE [ret |-> "True", out |-> out,
             fs |-> WriteFile(fsys, output_filename, Entry("image", target[1], target[2])),
             locals |-> Locals("saved", input_filename, size, target, resized, off, output_filename)]

\* ------------------------------------------ convert_to_bmp called on its own
Path_a_jpg == <<"a", ".", "j", "p", "g">>
Path_a_b_png == <<"a", ".", "b", ".", "p", "n", "g">>
Path_dx_a == <<"d", ".", "x", "/", "a">>
Path_d_hid == <<"d", "/", ".", "h">>
Path_d_hid_png == <<"d", "/", ".", "h", ".", "p", "n", "g">>
InputPaths == {Path_a_jpg, Path_a_b_png, Path_dx_a, Path_d_hid, Path_d_hid_png}

Orientations == {"", "landscape", "portrait"}

NoArgv == [orient |-> "", dither |-> "", verbose |-> "", path |-> <<>>]

Args(f, o, d, v) == [image_file |-> f, orient |-> o, dither |-> d, verbose |-> v]

\* one file at the input path: an image of any size within the bound, a file
\* that fails verification or decoding, or nothing
ConvertInit ==
  /\ pc = "call"
  /\ argv = NoArgv
  /\ \E p \in InputPaths, o \in Orientations, v \in BOOLEAN :
       /\ args = Args(p, o, 3, v)
       /\ \/ \E w \in 1..MaxDim, h \in 1..MaxDim :
               fs = [q \in {p} |-> Entry("image", w, h)]
          \/ fs = [q \in {p} |-> Entry("truncated", 2, 1)]
          \/ fs = [q \in {p} |-> Entry("junk", 0, 0)]
          \/ fs = [q \in {OutputFilename(p, o)} |-> Entry("dir", 0, 0)]
          \/ fs = [q \in {p, OutputFilename(p, o)} |->
                     IF q = p THEN Entry("image", 2, 1) ELSE Entry("dir", 0, 0)]
  /\ files = <<>>
  /\ idx = 0
  /\ converted_files = 0
  /\ stdout = <<>>
  /\ call = NoCall
  /\ trace = <<>>

CallRecord(r) == [input |-> r.locals.input_filename, ret |-> r.ret,
                  output |-> r.locals.output_filename]

ConvertCall ==
  /\ pc = "call"
  /\ LET r == convert_to_bmp(args.image_file, args.orient, args.verbose, fs)
     IN /\ pc' = IF r.ret = "raise" THEN "raised" ELSE "returned"
        /\ fs' = r.fs
        /\ stdout' = stdout \o r.out
        /\ call' = r.locals
        /\ trace' = Append(trace, CallRecord(r))
  /\ UNCHANGED <<argv, args, files, idx, converted_files>>

ConvertNext == ConvertCall

SpecConvert == ConvertInit /\ [][ConvertNext]_vars

\* ------------------------------------------------ the driver, lines 140-149
\* variant: the entries of os.listdir are not filtered with isfile
list_filenames_Unfiltered(directory, fsys) ==
  IF directory \notin DOMAIN fsys
  THEN [ret |-> "return", names |-> {},
        out |-> <<Line("dir_not_found", directory, 0, 0)>>]
  ELSE IF fsys[directory].kind = "dir_noread"
  THEN [ret |-> "return", names |-> {},
        out |-> <<Line("dir_denied", directory, 0, 0)>>]
  ELSE IF fsys[directory].kind \notin DirKinds
  THEN [ret |-> "raise", names |-> {}, out |-> <<>>]
  ELSE [ret |-> "return", out |-> <<>>,
        names |-> {basename(q) : q \in {r \in DOMAIN fsys : IsUnder(r, directory)
                                                         /\ dirname(r) = directory}}]

\* lines 37-52.  names is the set of entries that are files; os.listdir gives
\* them in an arbitrary order, which the caller of this operator chooses
list_filenames(directory, fsys) ==
  IF directory \notin DOMAIN fsys
  THEN [ret |-> "return", names |-> {},
        out |-> <<Line("dir_not_found", directory, 0, 0)>>]
  ELSE IF fsys[directory].kind = "dir_noread"
  THEN [ret |-> "return", names |-> {},
        out |-> <<Line("dir_denied", directory, 0, 0)>>]
  ELSE IF fsys[directory].kind \notin DirKinds
  THEN [ret |-> "raise", names |-> {}, out |-> <<>>]
  ELSE [ret |-> "return", out |-> <<>>,
        names |-> {f \in {basename(q) : q \in {r \in DOMAIN fsys : IsUnder(r, directory)
                                                                  /\ dirname(r) = directory}} :
                     isfile(fsys, Join(directory, f))}]

Orderings(S) ==
  {s \in [1..Cardinality(S) -> S] : \A i, j \in 1..Cardinality(S) : s[i] = s[j] => i = j}

Dir == <<"d">>
Name_a_jpg == <<"a", ".", "j", "p", "g">>
Name_a_png == <<"a", ".", "p", "n", "g">>
Name_a_8b6_bmp == <<"a">> \o Str_8b6_bmp
Name_b_BMP == <<"b", ".", "B", "M", "P">>
Names == {Name_a_jpg, Name_a_png, Name_a_8b6_bmp, Name_b_BMP}

EntryChoices == {Entry("image", 4, 3), Entry("truncated", 4, 3),
                 Entry("junk", 0, 0), Entry("dir", 0, 0)}

\* a directory with the given entries
Name_x_jpg == <<"x", ".", "j", "p", "g">>

\* a directory with the given entries; an entry that is a subdirectory holds
\* one image file of its own
DirWith(directory, dirkind, S, content) ==
  [q \in {directory} \cup {Join(directory, n) : n \in S}
         \cup {Join(Join(directory, n), Name_x_jpg) : n \in {m \in S : content[m].kind = "dir"}} |->
     IF q = directory THEN Entry(dirkind, 0, 0)
     ELSE IF dirname(q) = directory THEN content[basename(q)]
     ELSE Entry("image", 4, 3)]

\* the driver entered with the values the parser can deliver; the input path
\* is a directory of at most MaxFiles entries, a single file, or nothing
BatchInit ==
  /\ pc = "start"
  /\ argv = NoArgv
  /\ \E o \in {"landscape", "portrait"}, v \in BOOLEAN : args = Args(Dir, o, 3, v)
  /\ \/ \E S \in SUBSET Names, k \in DirKinds :
          /\ Cardinality(S) <= MaxFiles
          /\ \E content \in [S -> EntryChoices] : fs = DirWith(Dir, k, S, content)
     \/ fs = [q \in {Dir} |-> Entry("image", 4, 3)]
     \/ fs = [q \in {Dir} |-> Entry("junk", 0, 0)]
     \/ fs = [q \in {} |-> Entry("junk", 0, 0)]
  /\ files = <<>>
  /\ idx = 0
  /\ converted_files = 0
  /\ stdout = <<>>
  /\ call = NoCall
  /\ trace = <<>>

\* lines 140-141 and 147
TestDirectory ==
  /\ pc = "start"
  /\ converted_files' = 0
  /\ pc' = IF is_directory(fs, args.image_file) THEN "list" ELSE "single"
  /\ UNCHANGED <<argv, args, fs, files, idx, stdout, call, trace>>

\* another process removes the directory after the test of line 141
DirectoryRemoved ==
  /\ pc = "list"
  /\ args.image_file \in DOMAIN fs
  /\ fs' = [q \in {r \in DOMAIN fs : r # args.image_file /\ ~IsUnder(r, args.image_file)}
              |-> fs[q]]
  /\ UNCHANGED <<pc, argv, args, files, idx, converted_files, stdout, call, trace>>

\* line 142
ListFiles ==
  /\ pc = "list"
  /\ LET r == list_filenames(args.image_file, fs)
     IN /\ pc' = IF r.ret = "raise" THEN "raised" ELSE "loop"
        /\ files' \in Orderings(r.names)
        /\ stdout' = stdout \o r.out
  /\ idx' = 0
  /\ UNCHANGED <<argv, args, fs, converted_files, call, trace>>

\* lines 143-145, one iteration
LoopBody ==
  /\ pc = "loop"
  /\ idx < Len(files)
  /\ LET file == files[idx + 1]
         r == convert_to_bmp(Join(args.image_file, file), args.orient, args.verbose, fs)
     IN /\ pc' = IF r.ret = "raise" THEN "raised" ELSE "loop"
        /\ converted_files' = IF r.ret = "True" THEN converted_files + 1 ELSE converted_files
        /\ idx' = IF r.ret = "raise" THEN idx ELSE idx + 1
        /\ fs' = r.fs
        /\ stdout' = stdout \o r.out
        /\ call' = r.locals
        /\ trace' = Append(trace, CallRecord(r))
  /\ UNCHANGED <<argv, args, files>>

\* line 146
PrintSummary ==
  /\ pc = "loop"
  /\ idx = Len(files)
  /\ stdout' = Append(stdout, Line("summary", args.image_file, converted_files, Len(files)))
  /\ pc' = "done"
  /\ UNCHANGED <<argv, args, fs, files, idx, converted_files, call, trace>>

\* lines 148-149
SingleFile ==
  /\ pc = "single"
  /\ LET r == convert_to_bmp(args.image_file, args.orient, args.verbose, fs)
     IN /\ pc' = IF r.ret = "raise" THEN "raised" ELSE "done"
        /\ converted_files' = IF r.ret = "True" THEN converted_files + 1 ELSE converted_files
        /\ fs' = r.fs
        /\ stdout' = stdout \o r.out
        /\ call' = r.locals
        /\ trace' = Append(trace, CallRecord(r))
  /\ UNCHANGED <<argv, args, files, idx>>

BatchNext ==
  \/ TestDirectory
  \/ DirectoryRemoved
  \/ ListFiles
  \/ LoopBody
  \/ PrintSummary
  \/ SingleFile

SpecBatch == BatchInit /\ [][BatchNext]_vars

\* ------------------------------------- the program from its start, line 117
\* a command line: for each option, "<absent>" when it is not given,
\* "<novalue>" when it is given without a value, else the value given
Absent == "<absent>"
NoValue == "<novalue>"
OrientTokens == {Absent, NoValue, "landscape", "portrait", "square"}
DitherTokens == {Absent, NoValue, "0", "3", "1"}
VerboseTokens == {Absent, NoValue, "", "True", "False"}

\* line 121: choices, nargs='?', const='portrait', default='portrait'
parse_orient(tok) ==
  IF tok \in {Absent, NoValue} THEN "portrait"
  ELSE IF tok \in {"landscape", "portrait"} THEN tok ELSE "error"

\* line 122: type=int, choices NONE (0) and FLOYDSTEINBERG (3), const and
\* default FLOYDSTEINBERG; -1 stands for a rejected value
parse_dither(tok) ==
  IF tok \in {Absent, NoValue} THEN 3
  ELSE IF tok = "0" THEN 0
  ELSE IF tok = "3" THEN 3 ELSE 0 - 1

\* line 123: type=bool, nargs='?', const=False, default=False; bool() of a
\* string is true exactly when the string is not empty
parse_verbose(tok) ==
  IF tok = Absent THEN FALSE
  ELSE IF tok = NoValue THEN FALSE
  ELSE tok # ""

Accepted(cmd) == parse_orient(cmd.orient) # "error" /\ parse_dither(cmd.dither) >= 0

NoArgs == Args(<<>>, "", 0, FALSE)

MainInit ==
  /\ pc = "parse"
  /\ argv \in [orient : OrientTokens, dither : DitherTokens,
               verbose : VerboseTokens, path : {Dir}]
  /\ args = NoArgs
  /\ \/ \E n \in Names, e \in EntryChoices :
          fs = DirWith(Dir, "dir", {n}, [m \in {n} |-> e])
     \/ fs = DirWith(Dir, "dir", {}, <<>>)
     \/ fs = [q \in {Dir} |-> Entry("image", 4, 3)]
  /\ files = <<>>
  /\ idx = 0
  /\ converted_files = 0
  /\ stdout = <<>>
  /\ call = NoCall
  /\ trace = <<>>

\* line 126, the command line is accepted
ParseArgs ==
  /\ pc = "parse"
  /\ Accepted(argv)
  /\ args' = Args(argv.path, parse_orient(argv.orient), parse_dither(argv.dither),
                  parse_verbose(argv.verbose))
  /\ pc' = "parsed"
  /\ UNCHANGED <<argv, fs, files, idx, converted_files, stdout, call, trace>>

\* line 126, the command line is rejected: usage message and exit status 2
ParseRejects ==
  /\ pc = "parse"
  /\ ~Accepted(argv)
  /\ pc' = "exit2"
  /\ UNCHANGED <<argv, args, fs, files, idx, converted_files, stdout, call, trace>>

\* lines 129-131: args.mode is read, but no argument named mode is defined
\* (lines 120-123), so line 131 raises AttributeError and the process ends
\* with a traceback before anything is printed
ReadParameters ==
  /\ pc = "parsed"
  /\ pc' = "raised"
  /\ UNCHANGED <<argv, args, fs, files, idx, converted_files, stdout, call, trace>>

MainNext ==
  \/ ParseArgs
  \/ ParseRejects
  \/ ReadParameters

Spec == MainInit /\ [][MainNext]_vars

\* ================================================================ properties
GeometryReached == call.stage \in {"resize_raised", "save_raised", "saved"}

C2_Cover ==
  GeometryReached =>
    /\ call.resized_width >= call.target_width
    /\ call.resized_height >= call.target_height

\* C3: left and top are the floor of half the difference between canvas and
\* resized size, also when the difference is negative, and the centre of the
\* pasted image is within 1 pixel of the centre of the canvas on both axes
\* (stated on doubled values: |2*left + resized - target| <= 2).
C3_Centering ==
  call.stage \in {"save_raised", "saved"} =>
    LET dw == call.target_width - call.resized_width
        dh == call.target_height - call.resized_height
        cw == 2 * call.left + call.resized_width - call.target_width
        ch == 2 * call.top + call.resized_height - call.target_height
    IN /\ 2 * call.left <= dw /\ dw < 2 * call.left + 2
       /\ 2 * call.top <= dh /\ dh < 2 * call.top + 2
       /\ cw >= 0 - 2 /\ cw <= 2
       /\ ch >= 0 - 2 /\ ch <= 2

C3_Witness ==
  /\ call.stage = "saved"
  /\ call.target_width < call.resized_width
  /\ (call.resized_width - call.target_width) % 2 = 1
  /\ call.left < 0

\* the input path is stem followed by ext, where ext is the last extension of
\* the last path component (a dot and what follows it, after at least one
\* character that is not a dot), or is empty when there is none
IsLastExtension(input, n) ==
  LET ext == SubSeq(input, n + 1, Len(input))
      sep == rfind(input, "/")
      HasExt(i) == /\ input[i] = "."
                   /\ \E j \in (sep + 1)..(i - 1) : input[j] # "."
  IN IF ext = <<>>
     THEN \A i \in (sep + 1)..Len(input) : ~HasExt(i)
     ELSE /\ n + 1 > sep
          /\ HasExt(n + 1)
          /\ \A i \in (n + 2)..Len(input) : input[i] # "."

\* C4: every successful conversion saves to the input path with its last
\* extension stripped, followed by .6b8.bmp exactly when the orientation is
\* landscape and by .8b6.bmp in every other case, whatever the canvas shape.
C4_OutputNaming ==
  call.stage = "saved" =>
    /\ \E n \in 0..Len(call.input_filename) :
         /\ IsLastExtension(call.input_filename, n)
         /\ call.output_filename =
              SubSeq(call.input_filename, 1, n)
                \o (IF args.orient = "landscape" THEN Str_6b8_bmp ELSE Str_8b6_bmp)
    /\ isfile(fs, call.output_filename)
    /\ fs[call.output_filename] = Entry("image", call.target_width, call.target_height)

C4_Witness ==
  /\ call.stage = "saved"
  /\ args.orient = ""
  /\ call.width > call.height
  /\ call.target_width = 800
  /\ call.input_filename = Path_a_b_png
  /\ call.output_filename = <<"a", ".", "b">> \o Str_8b6_bmp

\* the files directly inside a directory
RegularFilesIn(fsys, directory) ==
  {q \in DOMAIN fsys : /\ IsUnder(q, directory)
                       /\ \A i \in (Len(directory) + 2)..Len(q) : q[i] # "/"
                       /\ fsys[q].kind \in FileKinds}

RECURSIVE CountTrue(_)
CountTrue(t) ==
  IF t = <<>> THEN 0
  ELSE (IF t[Len(t)].ret = "True" THEN 1 ELSE 0) + CountTrue(SubSeq(t, 1, Len(t) - 1))

HasSummary == \E i \in 1..Len(stdout) : stdout[i].kind = "summary"

\* the counters of the loop and the summary line: 0 <= converted <=
\* processed <= total at every point, and the summary reports the number of
\* calls that returned True and the number of listed files
LoopCounts ==
  /\ 0 <= converted_files
  /\ pc \in {"list", "loop"} \/ HasSummary =>
       converted_files <= idx /\ idx <= Len(files)
  /\ pc = "loop" => converted_files = CountTrue(trace) /\ idx = Len(trace)
  /\ \A i \in 1..Len(stdout) :
       stdout[i].kind = "summary" =>
         /\ stdout[i].x = CountTrue(trace)
         /\ stdout[i].y = Len(files)
         /\ stdout[i].x <= stdout[i].y

ListedAreRegularFiles ==
  /\ Len(files) = Cardinality(RegularFilesIn(fs, args.image_file))
  /\ \A i \in 1..Len(files) :
       Join(args.image_file, files[i]) \in RegularFilesIn(fs, args.image_file)

C6_NoExceptionBeforeSummary ==
  is_directory(fs, argv.path) => ~(pc = "raised" /\ ~HasSummary)

\* C7: when the input path does not exist or is a directory that cannot be
\* read, the run ends with a directory error message and the summary
\* 'Converted 0 from 0', and no file is converted.
C7_DirectoryErrors ==
  (pc = "done" /\ (args.image_file \notin DOMAIN fs \/ fs[args.image_file].kind = "dir_noread")) =>
    /\ \E i \in 1..Len(stdout) : stdout[i].kind \in {"dir_not_found", "dir_denied"}
    /\ stdout[Len(stdout)] = Line("summary", args.image_file, 0, 0)
    /\ CountTrue(trace) = 0

\* C8: in a directory run no file whose name ends in .bmp is passed through
\* the conversion pipeline.
C8_NoBmpConverted ==
  files # <<>> => \A i \in 1..Len(trace) : ~is_bmp_image(trace[i].input)

\* C9: after parsing, verbose is true exactly when --verbose was given on the
\* command line, with or without a value.
C9_VerboseFlag ==
  pc = "parsed" => (args.verbose <=> argv.verbose # Absent)

\* C10: within one directory batch the output path written for one input
\* differs from the output path written for every other input and from the
\* path of every listed input file.
C10_NoOverwrite ==
  \A i \in 1..Len(trace) :
    trace[i].ret = "True" /\ files # <<>> =>
      /\ \A j \in 1..Len(trace) :
           (j # i /\ trace[j].ret = "True") => trace[j].output # trace[i].output
      /\ \A k \in 1..Len(files) : Join(args.image_file, files[k]) # trace[i].output

====
